---- MODULE Spec2Model ----
(***************************************************************************)
(* Model of the callable functions of salonFunctions: the profile handlers *)
(* (ensureUserProfile, getAuthUserProfile, updateAuthUserProfile,          *)
(* getAllUserProfiles, searchUsersByEmail), the salon handlers (addSalon,  *)
(* updateSalon, deleteSalon) and the shared guard assertAdmin.             *)
(*                                                                         *)
(* A handler invocation is a process that moves from one awaited round     *)
(* trip (Firestore read or write, identity-provider call) to the next, so  *)
(* that invocations interleave exactly where the code awaits.  Documents   *)
(* are maps from field names to values: a field the code never wrote is    *)
(* not in the DOMAIN of the document, a document that does not exist is    *)
(* not in the DOMAIN of its collection.                                    *)
(***************************************************************************)
EXTENDS Integers, FiniteSets, Sequences, TLC

VARIABLES
    envAppId,   \* process.env.FIREBASE_APP_ID || 'default-app-id'
    profiles,   \* artifacts/{appId}/users/{uid}/profile/data, keyed <<appId, uid>>
    salons,     \* artifacts/{envAppId}/public/data/salons/{id}, keyed by id
    authUsers,  \* display attributes of the identity provider's user records
    now,        \* commit time of the latest write (server clock)
    ncalls,     \* number of invocations started so far
    pc,         \* per invocation slot: the await the handler is at
    req,        \* per invocation slot: the CallableRequest
    loc,        \* per invocation slot: the handler's local variables
    res,        \* per invocation slot: what the handler returned or threw
    io,         \* per invocation slot: whether it has read / written the store
    base,       \* per invocation slot: the store as it was when the call began
    prev        \* the last completed ownership transfer, while nothing else ran

vars == <<envAppId, profiles, salons, authUsers, now, ncalls,
          pc, req, loc, res, io, base, prev>>

-----------------------------------------------------------------------------
(* Bounds and value domains *)

MaxCalls == 2
MaxIdleTime == 2
MaxDirectory == 11

Procs == {"p1", "p2"}
SeqProcs == {"p1"}

Uids == {"u1", "u2", "u3"}
Callers == {"u1", "u2"}
NoAuth == "<no-auth>"

Undefined == "<undefined>"
Null == "<null>"
NotAString == "<File>"

HardAppId == "1:514813479729:web:4a0ec92280f130e8b63e10"
DefaultAppId == "default-app-id"
AppIds == {HardAppId, DefaultAppId}

EmailOf(uid) == IF uid = "u1" THEN "ann@x" ELSE IF uid = "u2" THEN "bob@x" ELSE "cy@x"
UnknownEmail == "zed@x"

\* Further accounts, which only fill the directory that a search goes through,
\* and their emails.
BulkUid ==
    <<"v01", "v02", "v03", "v04", "v05", "v06", "v07", "v08",
      "v09", "v10", "v11", "v12", "v13", "v14", "v15", "v16">>
BulkEmail ==
    <<"anaa@x", "anba@x", "anca@x", "anda@x", "anea@x", "anfa@x", "anga@x", "anha@x",
      "ania@x", "anja@x", "anka@x", "anla@x", "anma@x", "anna@x", "anoa@x", "anpa@x">>

Falsy(v) == v \in {Undefined, Null, ""}
OrElse(a, b) == IF Falsy(a) THEN b ELSE a

EmptyDoc == [f \in {} |-> Undefined]
Field(d, f) == IF f \in DOMAIN d THEN d[f] ELSE Undefined

-----------------------------------------------------------------------------
(* Firestore document operations, as the handlers call them *)

GetUserProfilePath(appId, userId) == <<appId, userId>>

DocExists(coll, k) == k \in DOMAIN coll

Merge(d, patch) ==
    [f \in (DOMAIN d) \cup (DOMAIN patch) |->
        IF f \in DOMAIN patch THEN patch[f] ELSE d[f]]

\* Variant: a write leaves the written document alone in its collection.
DocSetAlone(coll, k, d) == [x \in {k} |-> d]

DocSet(coll, k, d) ==
    [x \in (DOMAIN coll) \cup {k} |-> IF x = k THEN d ELSE coll[x]]

DocUpdate(coll, k, patch) == DocSet(coll, k, Merge(coll[k], patch))

DocSetMerge(coll, k, patch) ==
    IF DocExists(coll, k) THEN DocUpdate(coll, k, patch) ELSE DocSet(coll, k, patch)

DocDelete(coll, k) == [x \in (DOMAIN coll) \ {k} |-> coll[x]]

ToISOString(t) == <<"iso", t>>

\* A date as a request's JSON carries it: a string, never a Firestore Timestamp.
\* Timestamps are the commit times 0, 1, 2, ...
ClientDate == -1

\* Whether field f of document d has a toDate() to call.
IsTimestamp(d, f) == f \in DOMAIN d /\ d[f] >= 0

-----------------------------------------------------------------------------
(* Results *)

Ok(v) == [code |-> "ok", value |-> v]
Err(c) == [code |-> c, value |-> Undefined]
NoRes == [code |-> "none", value |-> Undefined]
NoReq == [op |-> "none"]
NoIo == [reads |-> FALSE, writes |-> FALSE]
NoBase == [profiles |-> EmptyDoc, salons |-> EmptyDoc, authUsers |-> EmptyDoc]
NoPrev == [valid |-> FALSE, failed |-> FALSE]

-----------------------------------------------------------------------------
(* Frame helpers: what one step of invocation p sets *)

Goto(p, label) == pc' = [pc EXCEPT ![p] = label]
Finish(p, r) == pc' = [pc EXCEPT ![p] = "done"] /\ res' = [res EXCEPT ![p] = r]
DidRead(p) == io' = [io EXCEPT ![p].reads = TRUE]
DidWrite(p) == io' = [io EXCEPT ![p].writes = TRUE]
Commit == now' = now + 1

\* Go on to the next await, or throw the HttpsError named by the label.
Advance(p, label) ==
    IF label \in {"invalid-argument", "permission-denied", "not-found", "unauthenticated"}
    THEN Finish(p, Err(label))
    ELSE Goto(p, label) /\ UNCHANGED res

\* Whether request r repeats the ownership transfer that has just completed.
IsReplay(r) ==
    /\ prev.valid
    /\ r.op = "updateSalon"
    /\ r.auth = prev.auth
    /\ r.data = prev.data

\* Whether request r repeats the ownership transfer that has just failed at
\* its second write.
IsRetry(r) ==
    /\ prev.failed
    /\ r.op = "updateSalon"
    /\ r.auth = prev.auth
    /\ r.data = prev.data

Begin(p, r) ==
    /\ pc[p] = "idle"
    /\ ncalls < MaxCalls
    /\ ncalls' = ncalls + 1
    /\ req' = [req EXCEPT ![p] = r]
    /\ io' = [io EXCEPT ![p] = NoIo]
    /\ base' = [base EXCEPT ![p] = [profiles |-> profiles, salons |-> salons,
                                     authUsers |-> authUsers]]
    /\ prev' = IF IsReplay(r) \/ IsRetry(r) THEN prev ELSE NoPrev

-----------------------------------------------------------------------------
(* ensureUserProfile *)

TokenClaims == {[name |-> "Ann", picture |-> "a.png"], [name |-> "", picture |-> ""]}

EnsureKey(p) == GetUserProfilePath(HardAppId, req[p].auth)

\* Variant: the new profile gets the role name updateSalon tests for.
NewUserProfileAsUser(userId, token, t) ==
    [uid |-> userId,
     displayName |-> OrElse(token.name, "New User"),
     email |-> OrElse(token.email, Null),
     photoURL |-> OrElse(token.picture, Null),
     phoneNumber |-> Null,
     createdAt |-> t,
     lastLoginAt |-> t,
     role |-> "user",
     ownedSalons |-> {},
     associatedSalons |-> {},
     favoriteSalons |-> {},
     address |-> Null]

NewUserProfile(userId, token, t) ==
    [uid |-> userId,
     displayName |-> OrElse(token.name, "New User"),
     email |-> OrElse(token.email, Null),
     photoURL |-> OrElse(token.picture, Null),
     phoneNumber |-> Null,
     createdAt |-> t,
     lastLoginAt |-> t,
     role |-> "customer",
     ownedSalons |-> {},
     associatedSalons |-> {},
     favoriteSalons |-> {},
     address |-> Null]

\* Variant: the handler stamps the time it took when it read the snapshot.
CreateStampAtRead(readTime, commitTime) == readTime

CreateStamp(readTime, commitTime) == commitTime

\* Variant: a login also refreshes the display name from the token.
LoginPatchWithName(token, t) ==
    [lastLoginAt |-> t, displayName |-> OrElse(token.name, "New User")]

LoginPatch(token, t) == [lastLoginAt |-> t]

ExistingResult(d) ==
    [uid |-> Field(d, "uid"),
     email |-> Field(d, "email"),
     displayName |-> Field(d, "displayName"),
     photoURL |-> Field(d, "photoURL"),
     phoneNumber |-> OrElse(Field(d, "phoneNumber"), Null),
     createdAt |-> ToISOString(d.createdAt),
     lastLoginAt |-> ToISOString(d.lastLoginAt),
     updatedAt |-> IF "updatedAt" \in DOMAIN d THEN ToISOString(d.updatedAt)
                   ELSE Undefined,
     role |-> Field(d, "role"),
     ownedSalons |-> IF "ownedSalons" \in DOMAIN d THEN d.ownedSalons ELSE {},
     associatedSalons |-> IF "associatedSalons" \in DOMAIN d THEN d.associatedSalons ELSE {},
     favoriteSalons |-> IF "favoriteSalons" \in DOMAIN d THEN d.favoriteSalons ELSE {},
     address |-> OrElse(Field(d, "address"), Null)]

CreatedResult(d, clientTime) ==
    [uid |-> d.uid,
     displayName |-> d.displayName,
     email |-> d.email,
     photoURL |-> d.photoURL,
     phoneNumber |-> d.phoneNumber,
     createdAt |-> ToISOString(clientTime),
     lastLoginAt |-> ToISOString(clientTime),
     role |-> d.role,
     ownedSalons |-> d.ownedSalons,
     associatedSalons |-> d.associatedSalons,
     favoriteSalons |-> d.favoriteSalons,
     address |-> d.address]

\* Lines 20-23: the authentication check, then the first await.
EnsureEntry(auth) == IF auth = NoAuth THEN "unauthenticated" ELSE "ens_get"

CallEnsure(p) ==
    \E a \in Callers \cup {NoAuth}, c \in TokenClaims :
        /\ a = NoAuth => c.name = ""
        /\ Begin(p, [op |-> "ensureUserProfile", auth |-> a,
                     token |-> [email |-> EmailOf(a), name |-> c.name, picture |-> c.picture]])
        /\ Advance(p, EnsureEntry(a))
        /\ UNCHANGED <<envAppId, profiles, salons, authUsers, now, loc>>

EnsGet(p) ==
    /\ pc[p] = "ens_get"
    /\ loc' = [loc EXCEPT ![p] = [exists |-> DocExists(profiles, EnsureKey(p)),
                                  readTime |-> now]]
    /\ Goto(p, IF DocExists(profiles, EnsureKey(p)) THEN "ens_update" ELSE "ens_set")
    /\ DidRead(p)
    /\ UNCHANGED <<envAppId, profiles, salons, authUsers, now, ncalls, req, res, base, prev>>

EnsUpdate(p) ==
    /\ pc[p] = "ens_update"
    /\ IF DocExists(profiles, EnsureKey(p))
       THEN /\ profiles' = DocUpdate(profiles, EnsureKey(p), LoginPatch(req[p].token, now + 1))
            /\ Commit
            /\ Goto(p, "ens_reget")
            /\ DidWrite(p)
            /\ UNCHANGED res
       ELSE /\ Finish(p, Err("internal"))
            /\ UNCHANGED <<profiles, now, io>>
    /\ UNCHANGED <<envAppId, salons, authUsers, ncalls, req, loc, base, prev>>

EnsReget(p) ==
    /\ pc[p] = "ens_reget"
    /\ IF /\ DocExists(profiles, EnsureKey(p))
          /\ IsTimestamp(profiles[EnsureKey(p)], "createdAt")
          /\ IsTimestamp(profiles[EnsureKey(p)], "lastLoginAt")
       THEN Finish(p, Ok(ExistingResult(profiles[EnsureKey(p)])))
       ELSE Finish(p, Err("internal"))
    /\ DidRead(p)
    /\ UNCHANGED <<envAppId, profiles, salons, authUsers, now, ncalls, req, loc, base, prev>>

EnsSet(p) ==
    /\ pc[p] = "ens_set"
    /\ profiles' = DocSet(profiles, EnsureKey(p),
                          NewUserProfile(req[p].auth, req[p].token,
                                         CreateStamp(loc[p].readTime, now + 1)))
    /\ Commit
    /\ Finish(p, Ok(CreatedResult(NewUserProfile(req[p].auth, req[p].token, now + 1), now + 1)))
    /\ DidWrite(p)
    /\ UNCHANGED <<envAppId, salons, authUsers, ncalls, req, loc, base, prev>>

-----------------------------------------------------------------------------
(* updateAuthUserProfile *)

\* The role and the other fields a request carries (targetUid apart).
UpdateInputs ==
    {[role |-> r, updates |-> EmptyDoc] : r \in {"admin", "customer"}}
    \cup {[role |-> Undefined, updates |-> u] :
            u \in {EmptyDoc,
                   [displayName |-> "Zoe"],
                   [photoURL |-> NotAString],
                   [photoURL |-> Null],
                   [createdAt |-> ClientDate, lastLoginAt |-> ClientDate],
                   [ownedSalons |-> {"s2"}]}}
    \cup {[role |-> "admin", updates |-> [displayName |-> "Zoe"]]}

UidToUpdate(r) == OrElse(r.data.targetUid, r.auth)
UpdateKey(p) == GetUserProfilePath(envAppId, UidToUpdate(req[p]))
CallerKey(p) == GetUserProfilePath(envAppId, req[p].auth)

\* Variant: any profile passes for an administrator's.
IsAdminDocAnyRole(coll, k) == DocExists(coll, k)

IsAdminDoc(coll, k) == DocExists(coll, k) /\ Field(coll[k], "role") = "admin"

\* Variant: the role check is made only for updates of another user.
NeedsAdminForOthersOnly(callerUid, uidToUpdate, currentRole, role) ==
    callerUid # uidToUpdate

NeedsAdminForRole(callerUid, uidToUpdate, currentRole, role) ==
    callerUid # uidToUpdate \/ currentRole # role

FinalUpdates(r) ==
    IF r.data.role # Undefined
    THEN Merge(r.data.updates, [role |-> r.data.role])
    ELSE r.data.updates

\* Variant: photoURL is not looked at.
PhotoURLUnchecked(u) == FALSE

PhotoURLInvalid(u) ==
    "photoURL" \in DOMAIN u /\ u.photoURL = NotAString

\* Where the handler goes once the permission checks are behind it.
AfterChecks(r) ==
    IF PhotoURLInvalid(FinalUpdates(r)) THEN "invalid-argument" ELSE "upd_write"

\* Where the handler goes once "Validate permissions ..." (lines 35-43) is behind it.
AfterOtherUserCheck(r, currentRole) ==
    IF r.data.role # Undefined
       /\ NeedsAdminForRole(r.auth, UidToUpdate(r), currentRole, r.data.role)
    THEN "upd_auth2"
    ELSE AfterChecks(r)

\* Lines 16-18: the authentication check, then the first await.
UpdateEntry(auth) == IF auth = NoAuth THEN "unauthenticated" ELSE "upd_get"

CallUpdate(p, inputs) ==
    \E a \in Callers \cup {NoAuth}, t \in Callers \cup {Undefined}, d \in inputs :
        /\ a = NoAuth => (t = Undefined /\ d.role = Undefined /\ d.updates = EmptyDoc)
        /\ Begin(p, [op |-> "updateAuthUserProfile", auth |-> a,
                     data |-> [targetUid |-> t, role |-> d.role, updates |-> d.updates]])
        /\ Advance(p, UpdateEntry(a))
        /\ UNCHANGED <<envAppId, profiles, salons, authUsers, now, loc>>

CallUpdateProfile(p) == CallUpdate(p, UpdateInputs)

\* The requests that ask for a role, and one that does not.
RoleInputs ==
    {d \in UpdateInputs :
        \/ d.role # Undefined /\ d.updates = EmptyDoc
        \/ d.role = Undefined /\ d.updates = [displayName |-> "Zoe"]}

CallUpdateRole(p) == CallUpdate(p, RoleInputs)

UpdGet(p) ==
    /\ pc[p] = "upd_get"
    /\ IF ~DocExists(profiles, UpdateKey(p))
       THEN Advance(p, "not-found") /\ UNCHANGED loc
       ELSE /\ loc' = [loc EXCEPT ![p] =
                          [currentRole |-> Field(profiles[UpdateKey(p)], "role")]]
            /\ Advance(p, IF req[p].auth # UidToUpdate(req[p])
                          THEN "upd_auth1"
                          ELSE AfterOtherUserCheck(req[p],
                                   Field(profiles[UpdateKey(p)], "role")))
    /\ DidRead(p)
    /\ UNCHANGED <<envAppId, profiles, salons, authUsers, now, ncalls, req, base, prev>>

UpdAuth1(p) ==
    /\ pc[p] = "upd_auth1"
    /\ Advance(p, IF IsAdminDoc(profiles, CallerKey(p))
                  THEN AfterOtherUserCheck(req[p], loc[p].currentRole)
                  ELSE "permission-denied")
    /\ DidRead(p)
    /\ UNCHANGED <<envAppId, profiles, salons, authUsers, now, ncalls, req, loc, base, prev>>

UpdAuth2(p) ==
    /\ pc[p] = "upd_auth2"
    /\ Advance(p, IF IsAdminDoc(profiles, CallerKey(p))
                  THEN AfterChecks(req[p])
                  ELSE "permission-denied")
    /\ DidRead(p)
    /\ UNCHANGED <<envAppId, profiles, salons, authUsers, now, ncalls, req, loc, base, prev>>

MirrorNeeded(u) ==
    ~Falsy(Field(u, "displayName")) \/ ~Falsy(Field(u, "photoURL"))

AuthUpdate(u) ==
    [f \in {g \in {"displayName", "photoURL"} : ~Falsy(Field(u, g))} |-> u[f]]

UpdWrite(p) ==
    /\ pc[p] = "upd_write"
    /\ IF DocExists(profiles, UpdateKey(p))
       THEN /\ profiles' = DocUpdate(profiles, UpdateKey(p),
                               Merge(FinalUpdates(req[p]), [updatedAt |-> now + 1]))
            /\ Commit
            /\ DidWrite(p)
            /\ IF MirrorNeeded(FinalUpdates(req[p]))
               THEN Goto(p, "upd_mirror") /\ UNCHANGED res
               ELSE Finish(p, Ok("User profile updated successfully!"))
       ELSE /\ Finish(p, Err("internal"))
            /\ UNCHANGED <<profiles, now, io>>
    /\ UNCHANGED <<envAppId, salons, authUsers, ncalls, req, loc, base, prev>>

UpdMirror(p) ==
    /\ pc[p] = "upd_mirror"
    /\ authUsers' = DocSetMerge(authUsers, UidToUpdate(req[p]), AuthUpdate(FinalUpdates(req[p])))
    /\ Finish(p, Ok("User profile updated successfully!"))
    /\ UNCHANGED <<envAppId, profiles, salons, now, ncalls, req, loc, io, base, prev>>

-----------------------------------------------------------------------------
(* getAuthUserProfile *)

GetTarget(r) == OrElse(r.data.uid, r.auth)

ProfileResult(d, clientTime) ==
    Merge(d, [createdAt |-> IF "createdAt" \in DOMAIN d
                            THEN ToISOString(d.createdAt)
                            ELSE ToISOString(clientTime)])

\* Line 49: a createdAt that is set and is no Timestamp has no toDate(), the
\* TypeError ends in the handler's catch.
CreatedAtConverts(d) == "createdAt" \notin DOMAIN d \/ IsTimestamp(d, "createdAt")

\* Lines 18-35: the authentication check, then the first await.
GetEntry(auth, target) ==
    IF auth = NoAuth THEN "unauthenticated"
    ELSE IF auth # target THEN "get_auth"
    ELSE "get_read"

CallGetProfile(p) ==
    \E a \in Callers \cup {NoAuth}, t \in Callers \cup {Undefined} :
        /\ a = NoAuth => t = Undefined
        /\ Begin(p, [op |-> "getAuthUserProfile", auth |-> a, data |-> [uid |-> t]])
        /\ Advance(p, GetEntry(a, OrElse(t, a)))
        /\ UNCHANGED <<envAppId, profiles, salons, authUsers, now, loc>>

GetAuth(p) ==
    /\ pc[p] = "get_auth"
    /\ Advance(p, IF IsAdminDoc(profiles, CallerKey(p)) THEN "get_read" ELSE "permission-denied")
    /\ DidRead(p)
    /\ UNCHANGED <<envAppId, profiles, salons, authUsers, now, ncalls, req, loc, base, prev>>

GetRead(p) ==
    /\ pc[p] = "get_read"
    /\ LET k == GetUserProfilePath(envAppId, GetTarget(req[p])) IN
         Finish(p, IF ~DocExists(profiles, k) THEN Ok(Null)
                   ELSE IF CreatedAtConverts(profiles[k])
                        THEN Ok(ProfileResult(profiles[k], now))
                        ELSE Err("internal"))
    /\ DidRead(p)
    /\ UNCHANGED <<envAppId, profiles, salons, authUsers, now, ncalls, req, loc, base, prev>>

-----------------------------------------------------------------------------
(* assertAdmin and the handlers behind it *)

SalonIds == {"s1", "s2"}
OwnerEmails == {EmailOf("u1"), EmailOf("u2"), UnknownEmail}

\* authAdmin.getUserByEmail: the account with that email, if any.
GetUserByEmail(email) ==
    IF \E u \in Uids : EmailOf(u) = email
    THEN CHOOSE u \in Uids : EmailOf(u) = email
    ELSE Undefined

\* UTF-16 code units of the strings a search compares.
CodeUnits(s) ==
    IF s = "ann@x" THEN <<1, 14, 14, 0, 24>>
    ELSE IF s = "bob@x" THEN <<2, 15, 2, 0, 24>>
    ELSE IF s = "cy@x" THEN <<3, 25, 0, 24>>
    ELSE IF s = "zed@x" THEN <<26, 5, 4, 0, 24>>
    ELSE IF s = "an" THEN <<1, 14>>
    ELSE IF s = "a" THEN <<1>>
    ELSE IF s = "bo" THEN <<2, 15>>
    ELSE IF \E i \in 1..Len(BulkEmail) : BulkEmail[i] = s
         THEN <<1, 14, CHOOSE i \in 1..Len(BulkEmail) : BulkEmail[i] = s, 1, 0, 24>>
    ELSE <<>>

HighCodeUnit == 63743

SearchLimit == 10
MinSearchLength == 2

RECURSIVE SeqLeq(_, _)
SeqLeq(a, b) ==
    IF a = <<>> THEN TRUE
    ELSE IF b = <<>> THEN FALSE
    ELSE IF Head(a) # Head(b) THEN Head(a) < Head(b)
    ELSE SeqLeq(Tail(a), Tail(b))

\* Variant: the query has the lower bound only.
InSearchRangeLowerOnly(email, term) ==
    /\ email \notin {Undefined, Null}
    /\ SeqLeq(CodeUnits(term), CodeUnits(email))

InSearchRange(email, term) ==
    /\ email \notin {Undefined, Null}
    /\ SeqLeq(CodeUnits(term), CodeUnits(email))
    /\ SeqLeq(CodeUnits(email), Append(CodeUnits(term), HighCodeUnit))

SearchTerms == {"an", "a", NotAString}

SearchTermInvalid(t) ==
    Falsy(t) \/ t = NotAString \/ Len(CodeUnits(t)) < MinSearchLength

SalonFieldsMissing(d) ==
    Falsy(d.name) \/ Falsy(d.address) \/ Falsy(d.description) \/ Falsy(d.ownerEmail)

UpdateSalonInvalid(d) ==
    Falsy(d.id) \/ (Falsy(d.name) /\ Falsy(d.address) /\ Falsy(d.description)
                    /\ Falsy(d.ownerEmail))

\* The appId the handler hands to assertAdmin.
GuardAppId(r) == IF r.op = "getAllUserProfiles" THEN HardAppId ELSE envAppId

\* Where a handler goes once assertAdmin has returned.
AfterGuard(r) ==
    IF r.op = "getAllUserProfiles" THEN "list_scan"
    ELSE IF r.op = "searchUsersByEmail"
         THEN (IF SearchTermInvalid(r.data.searchTerm) THEN "search_empty" ELSE "search_scan")
    ELSE IF r.op = "addSalon"
         THEN (IF SalonFieldsMissing(r.data) THEN "invalid-argument" ELSE "add_write")
    ELSE IF r.op = "deleteSalon"
         THEN (IF Falsy(r.data.id) THEN "invalid-argument" ELSE "del_write")
    ELSE IF UpdateSalonInvalid(r.data) THEN "invalid-argument"
    ELSE IF ~Falsy(r.data.ownerEmail) THEN "us_lookup"
    ELSE "us_salonwrite"

AdminRequests ==
    {[op |-> "getAllUserProfiles", data |-> Undefined]}
    \cup {[op |-> "searchUsersByEmail", data |-> [searchTerm |-> t]] : t \in SearchTerms}
    \cup {[op |-> "addSalon",
           data |-> [name |-> "Cut", address |-> "1 Rd", description |-> "d",
                     ownerEmail |-> e]] : e \in {EmailOf("u1"), ""}}
    \cup {[op |-> "deleteSalon", data |-> [id |-> i]] : i \in {"s1", ""}}
    \cup {[op |-> "updateSalon",
           data |-> [id |-> "s1", name |-> "", address |-> "", description |-> "",
                     ownerEmail |-> e]] : e \in OwnerEmails \cup {""}}
    \cup {[op |-> "updateSalon",
           data |-> [id |-> i, name |-> "Trim", address |-> "", description |-> "",
                     ownerEmail |-> e]] : i \in {"s1", "s2"}, e \in {EmailOf("u1"), ""}}

\* What an unauthenticated caller sends: one request per handler.
AnonymousRequests ==
    {r \in AdminRequests :
        \/ r.op = "getAllUserProfiles"
        \/ r.op = "searchUsersByEmail" /\ r.data.searchTerm = "an"
        \/ r.op = "addSalon" /\ r.data.ownerEmail # ""
        \/ r.op = "deleteSalon" /\ r.data.id = "s1"
        \/ r.op = "updateSalon" /\ r.data.name = "" /\ r.data.ownerEmail = EmailOf("u1")}

\* Variant: assertAdmin goes straight to the profile read.
AdminEntryNoAuthCheck(auth) == "guard"

\* assertAdmin, lines 327-329: the authentication check, then the first await.
AdminEntry(auth) == IF auth = NoAuth THEN "unauthenticated" ELSE "guard"

CallOp(p, requests) ==
    \E a \in Callers \cup {NoAuth}, r \in requests :
        /\ a = NoAuth => r \in AnonymousRequests
        /\ Begin(p, [op |-> r.op, auth |-> a, data |-> r.data])
        /\ Advance(p, AdminEntry(a))
        /\ UNCHANGED <<envAppId, profiles, salons, authUsers, now, loc>>

CallAdminOp(p) == CallOp(p, AdminRequests)

CallSearch(p) == CallOp(p, {r \in AdminRequests : r.op = "searchUsersByEmail"})

\* One request for each handler behind assertAdmin.
CallGuarded(p) == CallOp(p, AnonymousRequests)

\* Variant: assertAdmin is content with any profile.
AssertAdminAnyProfile(coll, appId, userId) ==
    DocExists(coll, GetUserProfilePath(appId, userId))

AssertAdminPasses(coll, appId, userId) ==
    /\ DocExists(coll, GetUserProfilePath(appId, userId))
    /\ Field(coll[GetUserProfilePath(appId, userId)], "role") = "admin"

Guard(p) ==
    /\ pc[p] = "guard"
    /\ IF AssertAdminPasses(profiles, GuardAppId(req[p]), req[p].auth)
       THEN IF AfterGuard(req[p]) = "search_empty"
            THEN Finish(p, Ok(<<>>))
            ELSE Advance(p, AfterGuard(req[p]))
       ELSE Advance(p, "permission-denied")
    /\ DidRead(p)
    /\ UNCHANGED <<envAppId, profiles, salons, authUsers, now, ncalls, req, loc, base, prev>>

\* Document paths compare as strings: '1:5148...' sorts before 'default-app-id'.
UidRank(u) ==
    IF u = "u1" THEN 0 ELSE IF u = "u2" THEN 1 ELSE IF u = "u3" THEN 2
    ELSE 2 + CHOOSE i \in 1..Len(BulkUid) : BulkUid[i] = u

PathRank(k) == (IF k[1] = HardAppId THEN 0 ELSE 3 + Len(BulkUid)) + UidRank(k[2])

\* The documents of the collection group 'profile', in document-name order.
RECURSIVE KeysInOrder(_)
KeysInOrder(ks) ==
    IF ks = {} THEN <<>>
    ELSE LET k == CHOOSE x \in ks : \A y \in ks : PathRank(x) <= PathRank(y)
         IN <<k>> \o KeysInOrder(ks \ {k})

\* The query's order: by email, then by document name.
EmailPathLeq(x, y) ==
    IF profiles[x].email = profiles[y].email
    THEN PathRank(x) <= PathRank(y)
    ELSE SeqLeq(CodeUnits(profiles[x].email), CodeUnits(profiles[y].email))

RECURSIVE OrderedByEmail(_)
OrderedByEmail(ks) ==
    IF ks = {} THEN <<>>
    ELSE LET k == CHOOSE x \in ks : \A y \in ks : EmailPathLeq(x, y)
         IN <<k>> \o OrderedByEmail(ks \ {k})

\* Variant: the query has no limit.
NoLimit(hits, n) == hits

Limit(hits, n) == SubSeq(hits, 1, IF Len(hits) < n THEN Len(hits) ELSE n)

SearchHits(term) ==
    Limit(OrderedByEmail({k \in DOMAIN profiles :
                            InSearchRange(Field(profiles[k], "email"), term)}),
          SearchLimit)

Suggestion(d) ==
    [uid |-> Field(d, "uid"),
     email |-> Field(d, "email"),
     displayName |-> OrElse(Field(d, "displayName"), Field(d, "email"))]

ListScan(p) ==
    /\ pc[p] = "list_scan"
    /\ Finish(p, IF \A k \in DOMAIN profiles : CreatedAtConverts(profiles[k])
                 THEN Ok([i \in 1..Len(KeysInOrder(DOMAIN profiles)) |->
                            ProfileResult(profiles[KeysInOrder(DOMAIN profiles)[i]], now)])
                 ELSE Err("internal"))
    /\ DidRead(p)
    /\ UNCHANGED <<envAppId, profiles, salons, authUsers, now, ncalls, req, loc, base, prev>>

SearchScan(p) ==
    /\ pc[p] = "search_scan"
    /\ LET hits == SearchHits(req[p].data.searchTerm)
       IN Finish(p, Ok([i \in 1..Len(hits) |-> Suggestion(profiles[hits[i]])]))
    /\ DidRead(p)
    /\ UNCHANGED <<envAppId, profiles, salons, authUsers, now, ncalls, req, loc, base, prev>>

-----------------------------------------------------------------------------
(* addSalon, deleteSalon, updateSalon *)

NewSalon(d, t) ==
    [name |-> d.name,
     address |-> d.address,
     description |-> d.description,
     ownerId |-> d.ownerEmail,
     createdAt |-> t,
     updatedAt |-> t]

AddWrite(p) ==
    /\ pc[p] = "add_write"
    /\ \E id \in SalonIds \ DOMAIN salons :
          /\ salons' = DocSet(salons, id, NewSalon(req[p].data, now + 1))
          /\ Finish(p, Ok([id |-> id, message |-> "Salon added successfully!"]))
    /\ Commit
    /\ DidWrite(p)
    /\ UNCHANGED <<envAppId, profiles, authUsers, ncalls, req, loc, base, prev>>

DelWrite(p) ==
    /\ pc[p] = "del_write"
    /\ salons' = DocDelete(salons, req[p].data.id)
    /\ Finish(p, Ok("Salon deleted successfully!"))
    /\ Commit
    /\ DidWrite(p)
    /\ UNCHANGED <<envAppId, profiles, authUsers, ncalls, req, loc, base, prev>>

UsLookup(p) ==
    /\ pc[p] = "us_lookup"
    /\ IF GetUserByEmail(req[p].data.ownerEmail) = Undefined
       THEN Advance(p, "not-found") /\ UNCHANGED loc
       ELSE /\ loc' = [loc EXCEPT ![p] = [ownerId |-> GetUserByEmail(req[p].data.ownerEmail)]]
            /\ Advance(p, "us_getprofile")
    /\ UNCHANGED <<envAppId, profiles, salons, authUsers, now, ncalls, req, io, base, prev>>

\* Variant: each transfer promotes the owner one step further.
OwnerProfilePlanLadder(exists, role) ==
    IF exists /\ role = "user" THEN [kind |-> "update", role |-> "salon"]
    ELSE IF exists /\ role = "salon" THEN [kind |-> "update", role |-> "admin"]
    ELSE IF ~exists THEN [kind |-> "stub", role |-> "salon"]
    ELSE [kind |-> "none", role |-> role]

\* Variant: a profile that has the promoted role is written as a stub again.
OwnerProfilePlanRestub(exists, role) ==
    IF exists /\ role = "user" THEN [kind |-> "update", role |-> "salon"]
    ELSE IF ~exists \/ role = "salon" THEN [kind |-> "stub", role |-> "salon"]
    ELSE [kind |-> "none", role |-> role]

\* Lines 51-61: which write, if any, the new owner's profile gets.
OwnerProfilePlan(exists, role) ==
    IF exists /\ role = "user" THEN [kind |-> "update", role |-> "salon"]
    ELSE IF ~exists THEN [kind |-> "stub", role |-> "salon"]
    ELSE [kind |-> "none", role |-> role]

StubProfile(email, role, t) == [email |-> email, role |-> role, createdAt |-> t]

\* Variant: the salon is written without the owner's profile being written.
AfterOwnerReadSkipsProfile(plan) == "us_salonwrite"

\* Lines 51-64: the await that follows the read of the owner's profile.
AfterOwnerRead(plan) == IF plan.kind = "none" THEN "us_salonwrite" ELSE "us_profwrite"

OwnerKey(p) == GetUserProfilePath(envAppId, loc[p].ownerId)

UsGetProfile(p) ==
    /\ pc[p] = "us_getprofile"
    /\ LET plan == OwnerProfilePlan(DocExists(profiles, OwnerKey(p)),
                                    IF DocExists(profiles, OwnerKey(p))
                                    THEN Field(profiles[OwnerKey(p)], "role")
                                    ELSE Undefined)
       IN /\ loc' = [loc EXCEPT ![p] = [ownerId |-> loc[p].ownerId, plan |-> plan]]
          /\ Goto(p, AfterOwnerRead(plan))
    /\ DidRead(p)
    /\ UNCHANGED <<envAppId, profiles, salons, authUsers, now, ncalls, req, res, base, prev>>

UsProfWrite(p) ==
    /\ pc[p] = "us_profwrite"
    /\ IF loc[p].plan.kind = "update" /\ ~DocExists(profiles, OwnerKey(p))
       THEN /\ Finish(p, Err("internal"))
            /\ UNCHANGED <<profiles, now, io>>
       ELSE /\ profiles' =
                 IF loc[p].plan.kind = "update"
                 THEN DocUpdate(profiles, OwnerKey(p), [role |-> loc[p].plan.role])
                 ELSE DocSetMerge(profiles, OwnerKey(p),
                                  StubProfile(req[p].data.ownerEmail, loc[p].plan.role, now + 1))
            /\ Commit
            /\ DidWrite(p)
            /\ Goto(p, "us_salonwrite")
            /\ UNCHANGED res
    /\ UNCHANGED <<envAppId, salons, authUsers, ncalls, req, loc, base, prev>>

UpdateData(d, ownerId, t) ==
    [f \in {"updatedAt"}
           \cup {g \in {"name", "address", "description"} : ~Falsy(d[g])}
           \cup (IF ownerId = Undefined THEN {} ELSE {"ownerId"}) |->
        IF f = "updatedAt" THEN t
        ELSE IF f = "ownerId" THEN ownerId
        ELSE d[f]]

Transfer(p) ==
    [valid |-> TRUE, failed |-> FALSE, auth |-> req[p].auth, data |-> req[p].data,
     ownerId |-> Field(salons'[req[p].data.id], "ownerId"),
     role |-> IF DocExists(profiles, OwnerKey(p))
              THEN Field(profiles[OwnerKey(p)], "role") ELSE Undefined]

UsSalonWrite(p) ==
    /\ pc[p] = "us_salonwrite"
    /\ IF DocExists(salons, req[p].data.id)
       THEN /\ salons' = DocUpdate(salons, req[p].data.id,
                             UpdateData(req[p].data, Field(loc[p], "ownerId"), now + 1))
            /\ Commit
            /\ DidWrite(p)
            /\ Finish(p, Ok("Salon updated successfully!"))
            /\ prev' = IF IsReplay(req[p]) \/ IsRetry(req[p]) THEN prev
                       ELSE IF "ownerId" \in DOMAIN loc[p] THEN Transfer(p)
                       ELSE NoPrev
       ELSE /\ Finish(p, Err("internal"))
            /\ UNCHANGED <<salons, now, io, prev>>
    /\ UNCHANGED <<envAppId, profiles, authUsers, ncalls, req, loc, base>>

-----------------------------------------------------------------------------
(* A store or provider round trip that fails, and the return to the caller *)

\* The round trips that may fail in this model: every write and every call of
\* the identity provider.
FailSteps ==
    {"ens_update", "ens_set", "upd_write", "upd_mirror",
     "add_write", "del_write", "us_lookup", "us_profwrite", "us_salonwrite"}

\* An ownership transfer whose profile write went through and whose salon
\* write failed, with the store as it was before the call.
FailedTransfer(p) ==
    [valid |-> FALSE, failed |-> TRUE, auth |-> req[p].auth, data |-> req[p].data,
     ownerId |-> loc[p].ownerId, before |-> base[p]]

Fail(p) ==
    /\ pc[p] \in FailSteps
    /\ Finish(p, Err("internal"))
    /\ prev' = IF pc[p] = "us_salonwrite" /\ "plan" \in DOMAIN loc[p] /\ io[p].writes
                  /\ ~IsRetry(req[p])
               THEN FailedTransfer(p)
               ELSE prev
    /\ UNCHANGED <<envAppId, profiles, salons, authUsers, now, ncalls, req, loc, io, base>>

Return(p) ==
    /\ pc[p] = "done"
    /\ pc' = [pc EXCEPT ![p] = "idle"]
    /\ req' = [req EXCEPT ![p] = NoReq]
    /\ loc' = [loc EXCEPT ![p] = EmptyDoc]
    /\ res' = [res EXCEPT ![p] = NoRes]
    /\ io' = [io EXCEPT ![p] = NoIo]
    /\ base' = [base EXCEPT ![p] = NoBase]
    /\ UNCHANGED <<envAppId, profiles, salons, authUsers, now, ncalls, prev>>

-----------------------------------------------------------------------------
(* Initial states *)

SeedAdmin(uid) ==
    [uid |-> uid, displayName |-> "Root", email |-> EmailOf(uid), photoURL |-> Null,
     phoneNumber |-> Null, createdAt |-> 0, lastLoginAt |-> 0, role |-> "admin",
     ownedSalons |-> {}, associatedSalons |-> {}, favoriteSalons |-> {}, address |-> Null]

InitProcs ==
    /\ pc = [p \in Procs |-> "idle"]
    /\ req = [p \in Procs |-> NoReq]
    /\ loc = [p \in Procs |-> EmptyDoc]
    /\ res = [p \in Procs |-> NoRes]
    /\ io = [p \in Procs |-> NoIo]
    /\ base = [p \in Procs |-> NoBase]
    /\ prev = NoPrev
    /\ ncalls = 0
    /\ now = 0

SeedSalon ==
    [name |-> "Cut", address |-> "1 Rd", description |-> "d", ownerId |-> EmailOf("u2"),
     createdAt |-> 0, updatedAt |-> 0]

\* The administrator's profile is put into the store by hand: no handler can
\* make the first one.  It is absent, under the appId the handlers read from
\* the environment, or under both appIds.
SeedProfiles(env) ==
    {[k \in {GetUserProfilePath(a, "u2") : a \in S} |-> SeedAdmin("u2")] :
        S \in {{}, {env}, AppIds}}

Init ==
    /\ envAppId \in AppIds
    /\ profiles \in SeedProfiles(envAppId)
    /\ salons = [k \in {"s1"} |-> SeedSalon]
    /\ authUsers = EmptyDoc
    /\ InitProcs

Next ==
    \E p \in SeqProcs :
        \/ CallEnsure(p)
        \/ EnsGet(p)
        \/ EnsUpdate(p)
        \/ EnsReget(p)
        \/ EnsSet(p)
        \/ CallUpdateProfile(p)
        \/ UpdGet(p)
        \/ UpdAuth1(p)
        \/ UpdAuth2(p)
        \/ UpdWrite(p)
        \/ UpdMirror(p)
        \/ CallGetProfile(p)
        \/ GetAuth(p)
        \/ GetRead(p)
        \/ CallAdminOp(p)
        \/ Guard(p)
        \/ ListScan(p)
        \/ SearchScan(p)
        \/ AddWrite(p)
        \/ DelWrite(p)
        \/ UsLookup(p)
        \/ UsGetProfile(p)
        \/ UsProfWrite(p)
        \/ UsSalonWrite(p)
        \/ Fail(p)
        \/ Return(p)

Spec == Init /\ [][Next]_vars

\* Time passes while no write commits.
Tick ==
    /\ now < MaxIdleTime
    /\ now' = now + 1
    /\ UNCHANGED <<envAppId, profiles, salons, authUsers, ncalls, pc, req, loc, res, io,
                   base, prev>>

InitEnsure ==
    /\ envAppId \in AppIds
    /\ profiles = EmptyDoc
    /\ salons = EmptyDoc
    /\ authUsers = EmptyDoc
    /\ InitProcs

NextEnsure ==
    \/ Tick
    \/ \E p \in Procs :
          \/ CallEnsure(p)
          \/ EnsGet(p)
          \/ EnsUpdate(p)
          \/ EnsReget(p)
          \/ EnsSet(p)
          \/ Fail(p)
          \/ Return(p)

SpecEnsure == InitEnsure /\ [][NextEnsure]_vars

\* The directory after the first n further accounts have signed in, one after
\* the other: ensureUserProfile has stored their profiles under its appId.
BulkProfiles(n) ==
    [k \in {GetUserProfilePath(HardAppId, BulkUid[i]) : i \in 1..n} |->
        LET i == CHOOSE j \in 1..n : BulkUid[j] = k[2]
        IN NewUserProfile(BulkUid[i], [email |-> BulkEmail[i], name |-> "", picture |-> ""], i)]

InitSearch ==
    /\ envAppId \in AppIds
    /\ \E n \in 0..MaxDirectory, admins \in SeedProfiles(envAppId) :
          profiles = [k \in (DOMAIN admins) \cup (DOMAIN BulkProfiles(n)) |->
                         IF k \in DOMAIN admins THEN admins[k] ELSE BulkProfiles(n)[k]]
    /\ salons = EmptyDoc
    /\ authUsers = EmptyDoc
    /\ InitProcs

NextSearch ==
    \E p \in SeqProcs :
        \/ CallSearch(p)
        \/ Guard(p)
        \/ SearchScan(p)
        \/ Return(p)

SpecSearch == InitSearch /\ [][NextSearch]_vars

\* Two invocations of updateAuthUserProfile at a time, in a store with one or
\* two administrators.
InitRace ==
    /\ envAppId \in AppIds
    /\ \E admins \in {{"u2"}, {"u1", "u2"}} :
          profiles = [k \in {GetUserProfilePath(envAppId, u) : u \in admins} |->
                         SeedAdmin(k[2])]
    /\ salons = EmptyDoc
    /\ authUsers = EmptyDoc
    /\ InitProcs

NextRace ==
    \E p \in Procs :
        \/ CallUpdateProfile(p)
        \/ UpdGet(p)
        \/ UpdAuth1(p)
        \/ UpdAuth2(p)
        \/ UpdWrite(p)
        \/ UpdMirror(p)
        \/ Fail(p)
        \/ Return(p)

SpecRace == InitRace /\ [][NextRace]_vars

\* A store without administrator: no profile at all, or the profile of the
\* last administrator, who has given the role up.  No handler gets past
\* assertAdmin from there, so the steps behind the guard are left out.
FormerAdmin(uid) == Merge(SeedAdmin(uid), [role |-> "customer", updatedAt |-> 0])

InitNoAdmin ==
    /\ envAppId \in AppIds
    /\ profiles \in {EmptyDoc,
                     [k \in {GetUserProfilePath(envAppId, "u2")} |-> FormerAdmin("u2")]}
    /\ salons = [k \in {"s1"} |-> SeedSalon]
    /\ authUsers = EmptyDoc
    /\ InitProcs

NextNoAdmin ==
    \E p \in Procs :
        \/ CallEnsure(p)
        \/ EnsGet(p)
        \/ EnsUpdate(p)
        \/ EnsReget(p)
        \/ EnsSet(p)
        \/ CallUpdateRole(p)
        \/ UpdGet(p)
        \/ UpdAuth1(p)
        \/ UpdAuth2(p)
        \/ UpdWrite(p)
        \/ UpdMirror(p)
        \/ CallGetProfile(p)
        \/ GetAuth(p)
        \/ GetRead(p)
        \/ CallGuarded(p)
        \/ Guard(p)
        \/ Fail(p)
        \/ Return(p)

SpecNoAdmin == InitNoAdmin /\ [][NextNoAdmin]_vars

-----------------------------------------------------------------------------
(* Properties *)

ProfileKeysOf(coll, uid) == {k \in DOMAIN coll : k[2] = uid}

IsEnsure(p) == req[p].op = "ensureUserProfile" /\ req[p].auth # NoAuth

\* C1: whatever the number of ensureUserProfile calls for an account, run one
\* after the other or interleaved at their reads and writes, the account has
\* at most one profile document, the document is never removed, and its
\* createdAt never moves to an earlier time.
C1_OneProfileCreatedAtNeverEarlier ==
    [][\A u \in Uids :
          /\ Cardinality(ProfileKeysOf(profiles', u)) <= 1
          /\ \A k \in ProfileKeysOf(profiles, u) :
                /\ k \in DOMAIN profiles'
                /\ profiles'[k].createdAt >= profiles[k].createdAt]_vars

\* Two first-time calls for one account have both read "absent" and both
\* written the profile.
C1_Witness ==
    /\ pc["p1"] = "done" /\ pc["p2"] = "done"
    /\ IsEnsure("p1") /\ IsEnsure("p2")
    /\ req["p1"].auth = req["p2"].auth
    /\ res["p1"].code = "ok" /\ res["p2"].code = "ok"
    /\ ~loc["p1"].exists /\ ~loc["p2"].exists

\* C2: the create write of a first-time ensureUserProfile call never lands on
\* a profile document that exists at the moment of the write.
C2_CreateNeverOverwrites ==
    [][\A p \in Procs :
          (pc[p] = "ens_set" /\ pc'[p] = "done" /\ res'[p].code = "ok")
              => ~DocExists(profiles, EnsureKey(p))]_vars

SameButLastLogin(d, e) ==
    /\ (DOMAIN d) \cup {"lastLoginAt"} = (DOMAIN e) \cup {"lastLoginAt"}
    /\ \A f \in (DOMAIN d) \ {"lastLoginAt"} : d[f] = e[f]

\* C3: a call of ensureUserProfile for an account whose profile exists when
\* the call begins changes nothing in the store but the lastLoginAt of that
\* profile, whatever the token's claims are.
C3_ExistingOnlyLastLogin ==
    [][\A p \in Procs :
          (pc[p] \in {"ens_get", "ens_update", "ens_reget", "ens_set"}
           /\ DocExists(base[p].profiles, EnsureKey(p)))
              => /\ DOMAIN profiles' = DOMAIN profiles
                 /\ \A k \in DOMAIN profiles :
                       IF k = EnsureKey(p)
                       THEN SameButLastLogin(profiles[k], profiles'[k])
                       ELSE profiles'[k] = profiles[k]
                 /\ salons' = salons]_vars

\* A login with claims that differ from the stored display name has refreshed
\* lastLoginAt of an existing profile.
C3_Witness ==
    \E p \in Procs :
        /\ pc[p] = "done" /\ IsEnsure(p) /\ res[p].code = "ok"
        /\ DocExists(base[p].profiles, EnsureKey(p))
        /\ profiles[EnsureKey(p)].displayName # OrElse(req[p].token.name, "New User")
        /\ profiles[EnsureKey(p)].lastLoginAt # base[p].profiles[EnsureKey(p)].lastLoginAt

\* C4: one successful ensureUserProfile call for an account that had no
\* profile document leaves exactly one, with role customer, createdAt equal
\* to lastLoginAt, the three salon collections empty and address null.
C4_FreshProfile ==
    \A p \in Procs :
        (pc[p] = "done" /\ IsEnsure(p) /\ res[p].code = "ok"
         /\ ProfileKeysOf(base[p].profiles, req[p].auth) = {})
            => /\ ProfileKeysOf(profiles, req[p].auth) = {EnsureKey(p)}
               /\ LET d == profiles[EnsureKey(p)] IN
                    /\ d.role = "customer"
                    /\ d.createdAt = d.lastLoginAt
                    /\ d.ownedSalons = {}
                    /\ d.associatedSalons = {}
                    /\ d.favoriteSalons = {}
                    /\ d.address = Null

\* A first login has created the profile.
C4_Witness ==
    \E p \in Procs :
        /\ pc[p] = "done" /\ IsEnsure(p) /\ res[p].code = "ok"
        /\ ProfileKeysOf(base[p].profiles, req[p].auth) = {}
        /\ DocExists(profiles, EnsureKey(p))

IsUpdate(p) == req[p].op = "updateAuthUserProfile" /\ req[p].auth # NoAuth

StoreUntouched(p) == profiles = base[p].profiles /\ salons = base[p].salons

\* C5: updateAuthUserProfile by a caller whose profile is not an admin's, for
\* a targetUid other than the caller, ends with permission-denied whatever
\* the patch and whatever the state of the target, and changes no document.
C5_OtherTargetDenied ==
    \A p \in Procs :
        (pc[p] = "done" /\ IsUpdate(p)
         /\ UidToUpdate(req[p]) # req[p].auth
         /\ ~IsAdminDoc(base[p].profiles, CallerKey(p)))
            => res[p].code = "permission-denied" /\ StoreUntouched(p)

\* C6: updateAuthUserProfile with role admin on the caller's own profile ends
\* with permission-denied unless that profile already has role admin, and no
\* self-update of a caller who is not an admin makes that caller an admin.
C6_NoSelfPromotion ==
    \A p \in Procs :
        (IsUpdate(p)
         /\ UidToUpdate(req[p]) = req[p].auth
         /\ DocExists(base[p].profiles, CallerKey(p))
         /\ ~IsAdminDoc(base[p].profiles, CallerKey(p)))
            => /\ ~IsAdminDoc(profiles, CallerKey(p))
               /\ (pc[p] = "done" /\ req[p].data.role = "admin")
                     => res[p].code = "permission-denied" /\ StoreUntouched(p)

\* A caller with a profile that is not an admin's has asked for role admin
\* on that profile and the call has returned.
C6_Witness ==
    \E p \in Procs :
        /\ pc[p] = "done" /\ IsUpdate(p)
        /\ UidToUpdate(req[p]) = req[p].auth
        /\ req[p].data.role = "admin"
        /\ DocExists(base[p].profiles, CallerKey(p))
        /\ ~IsAdminDoc(base[p].profiles, CallerKey(p))
        /\ res[p].code = "permission-denied"

UserRoles == {"admin", "customer"}

\* C7: every profile's role is admin or customer, and a role changes only
\* between these two and only by updateAuthUserProfile: no other handler
\* writes another role value or changes a role.
C7_RoleEnum ==
    [][/\ \A k \in DOMAIN profiles' : Field(profiles'[k], "role") \in UserRoles
       /\ \A p \in Procs : \A k \in DOMAIN profiles :
             (req[p].op # "updateAuthUserProfile" /\ pc'[p] # pc[p])
                 => Field(profiles'[k], "role") = Field(profiles[k], "role")]_vars

AdminOps == {"getAllUserProfiles", "searchUsersByEmail", "addSalon", "updateSalon",
             "deleteSalon"}

IsAdminOp(p) == req[p].op \in AdminOps /\ req[p].auth # NoAuth

GuardKey(p) == GetUserProfilePath(GuardAppId(req[p]), req[p].auth)

WasAdmin(p) == IsAdminDoc(base[p].profiles, GuardKey(p))

C10_TransferIdempotent ==
    \A p \in Procs :
        (pc[p] = "done" /\ req[p].op = "updateSalon" /\ IsReplay(req[p]))
            => /\ DocExists(salons, req[p].data.id)
               /\ Field(salons[req[p].data.id], "ownerId") = prev.ownerId
               /\ DocExists(profiles, GetUserProfilePath(envAppId, prev.ownerId))
               /\ Field(profiles[GetUserProfilePath(envAppId, prev.ownerId)], "role")
                     = prev.role

\* The same transfer has run twice in a row, both times with success.
C10_Witness ==
    \E p \in Procs :
        /\ pc[p] = "done" /\ req[p].op = "updateSalon" /\ IsReplay(req[p])
        /\ res[p].code = "ok"

IsTransfer(p) ==
    /\ req[p].op = "updateSalon"
    /\ req[p].auth # NoAuth
    /\ ~Falsy(req[p].data.ownerEmail)

\* C11: when updateSalon with an ownerEmail has returned, with success or with
\* an error, the owner's profile and the salon's ownerId have been written
\* together or not at all: no profile document was created or changed while
\* the salon stayed as it was, and the salon was not given an owner without a
\* profile document.
C11_TransferAllOrNothing ==
    \A p \in Procs :
        (pc[p] = "done" /\ IsTransfer(p))
            => /\ (profiles # base[p].profiles) => (salons # base[p].salons)
               /\ (salons # base[p].salons) => DocExists(profiles, OwnerKey(p))

\* C12: updateSalon is at the write of the salon's ownerId only after it has
\* read the new owner's profile and, the profile being absent, created it;
\* and in every state a salon whose ownerId is an account id (what updateSalon
\* writes; addSalon writes an email) names an account that has a profile
\* document.
C12_OwnerHasProfile ==
    /\ \A p \in Procs :
          (pc[p] = "us_salonwrite" /\ "ownerId" \in DOMAIN loc[p])
              => /\ "plan" \in DOMAIN loc[p]
                 /\ io[p].reads
                 /\ DocExists(profiles, OwnerKey(p))
    /\ \A s \in DOMAIN salons :
          Field(salons[s], "ownerId") \in Uids
              => DocExists(profiles, GetUserProfilePath(envAppId, salons[s].ownerId))

\* A salon has been handed to an account whose profile the transfer created.
C12_Witness ==
    \E s \in DOMAIN salons :
        /\ Field(salons[s], "ownerId") \in Uids
        /\ DocExists(profiles, GetUserProfilePath(envAppId, salons[s].ownerId))
        /\ Field(profiles[GetUserProfilePath(envAppId, salons[s].ownerId)], "role") = "salon"

PromotedRole == "salon"
DefaultRole == "customer"

\* C13: after a successful updateSalon with an ownerEmail, a new owner who had
\* no profile has a stub with that email, the promoted role and the creation
\* time of the stub's write; a new owner whose profile had the role that
\* ensureUserProfile gives a new profile has the promoted role; a new owner
\* whose profile had role admin still has role admin.
C13_TransferPromotes ==
    \A p \in Procs :
        (pc[p] = "done" /\ IsTransfer(p) /\ res[p].code = "ok")
            => /\ DocExists(profiles, OwnerKey(p))
               /\ IF ~DocExists(base[p].profiles, OwnerKey(p))
                  THEN /\ profiles[OwnerKey(p)].email = req[p].data.ownerEmail
                       /\ profiles[OwnerKey(p)].role = PromotedRole
                       /\ profiles[OwnerKey(p)].createdAt = now - 1
                  ELSE IF Field(base[p].profiles[OwnerKey(p)], "role") = DefaultRole
                  THEN Field(profiles[OwnerKey(p)], "role") = PromotedRole
                  ELSE IF Field(base[p].profiles[OwnerKey(p)], "role") = "admin"
                  THEN Field(profiles[OwnerKey(p)], "role") = "admin"
                  ELSE TRUE

\* C14: in every state, each salon id in a profile's ownedSalons is the id of
\* an existing salon whose ownerId is the account the profile belongs to.
C14_OwnedSalonsExist ==
    \A k \in DOMAIN profiles :
        "ownedSalons" \in DOMAIN profiles[k]
            => \A s \in profiles[k].ownedSalons :
                  /\ DocExists(salons, s)
                  /\ Field(salons[s], "ownerId") = k[2]

\* C15: once the profile write of updateAuthUserProfile has succeeded, the
\* call returns success, a failing update of the identity provider's user
\* record included, and the written fields stay in the profile.
C15_MirrorBestEffort ==
    \A p \in Procs :
        (pc[p] = "done" /\ IsUpdate(p) /\ io[p].writes)
            => /\ res[p].code = "ok"
               /\ \A f \in DOMAIN FinalUpdates(req[p]) :
                     profiles[UpdateKey(p)][f] = FinalUpdates(req[p])[f]

IsList(p) == req[p].op = "getAllUserProfiles" /\ req[p].auth # NoAuth
IsSearch(p) == req[p].op = "searchUsersByEmail" /\ req[p].auth # NoAuth

StartsWith(email, term) ==
    /\ Len(CodeUnits(term)) <= Len(CodeUnits(email))
    /\ SubSeq(CodeUnits(email), 1, Len(CodeUnits(term))) = CodeUnits(term)

\* No profile of the directory has an email that begins with the term.
NoMatch(term) ==
    \/ SearchTermInvalid(term)
    \/ \A k \in DOMAIN profiles : ~StartsWith(Field(profiles[k], "email"), term)

C17_SearchPrefixLimit ==
    \A p \in Procs :
        (IsSearch(p) /\ WasAdmin(p))
            => /\ (pc[p] = "search_scan") => ~SearchTermInvalid(req[p].data.searchTerm)
               /\ (pc[p] = "done") =>
                     IF SearchTermInvalid(req[p].data.searchTerm)
                     THEN res[p] = Ok(<<>>)
                     ELSE /\ res[p].code = "ok"
                          /\ Len(res[p].value) <= SearchLimit
                          /\ \A i \in 1..Len(res[p].value) :
                                /\ StartsWith(res[p].value[i].email, req[p].data.searchTerm)
                                /\ DOMAIN res[p].value[i] = {"uid", "email", "displayName"}

\* An admin has searched a directory in which more than ten emails begin with
\* the term and one does not, and got ten records.
C17_Witness ==
    \E p \in Procs :
        /\ pc[p] = "done" /\ IsSearch(p) /\ WasAdmin(p)
        /\ ~SearchTermInvalid(req[p].data.searchTerm)
        /\ Cardinality({k \in DOMAIN profiles :
                          StartsWith(Field(profiles[k], "email"), req[p].data.searchTerm)})
              > SearchLimit
        /\ \E k \in DOMAIN profiles :
              ~StartsWith(Field(profiles[k], "email"), req[p].data.searchTerm)
        /\ res[p].code = "ok"
        /\ Len(res[p].value) = SearchLimit

IsGet(p) == req[p].op = "getAuthUserProfile" /\ req[p].auth # NoAuth

GetKey(p) == GetUserProfilePath(envAppId, GetTarget(req[p]))

\* C18: getAuthUserProfile never changes a document; it reads the caller's
\* profile to authorize only when the target is another account; called for
\* the caller's own account, or by a caller whose profile has role admin, it
\* returns the target's profile, or null when there is none; called otherwise
\* it ends with permission-denied and no data.
C18_SelfOrAdminRead ==
    \A p \in Procs :
        IsGet(p)
            => /\ StoreUntouched(p)
               /\ (pc[p] = "get_auth") => GetTarget(req[p]) # req[p].auth
               /\ (pc[p] = "done") =>
                     IF \/ GetTarget(req[p]) = req[p].auth
                        \/ IsAdminDoc(base[p].profiles, CallerKey(p))
                     THEN /\ res[p].code = "ok"
                          /\ res[p].value =
                                IF DocExists(profiles, GetKey(p))
                                THEN ProfileResult(profiles[GetKey(p)], now)
                                ELSE Null
                     ELSE res[p] = Err("permission-denied")

\* The document ensureUserProfile keeps for an account.
EnsureDoc(uid) == GetUserProfilePath(HardAppId, uid)

\* C19: the profile that ensureUserProfile has written for an account is the
\* document updateAuthUserProfile works on: for an account that has signed in,
\* an admin's updateAuthUserProfile with role admin succeeds (a failing store
\* or provider apart) and leaves role admin in that document, and the update
\* of a caller who is not an admin ends with permission-denied.
C19_SameDocument ==
    \A p \in Procs :
        (pc[p] = "done" /\ IsUpdate(p)
         /\ UidToUpdate(req[p]) # req[p].auth
         /\ DocExists(base[p].profiles, EnsureDoc(UidToUpdate(req[p]))))
            => IF IsAdminDoc(base[p].profiles, CallerKey(p))
               THEN req[p].data.role = "admin"
                       => /\ res[p].code \in {"ok", "internal"}
                          /\ res[p].code = "ok"
                                => Field(profiles[EnsureDoc(UidToUpdate(req[p]))], "role")
                                      = "admin"
               ELSE res[p].code = "permission-denied"

\* The caller of a handler is not entitled to what the request asks for.
Unauthorized(p) ==
    \/ IsAdminOp(p) /\ ~WasAdmin(p)
    \/ /\ IsGet(p)
       /\ GetTarget(req[p]) # req[p].auth
       /\ ~IsAdminDoc(base[p].profiles, CallerKey(p))
    \/ /\ IsUpdate(p)
       /\ ~IsAdminDoc(base[p].profiles, CallerKey(p))
       /\ \/ UidToUpdate(req[p]) # req[p].auth
          \/ /\ req[p].data.role # Undefined
             /\ DocExists(base[p].profiles, UpdateKey(p))
             /\ Field(base[p].profiles[UpdateKey(p)], "role") # req[p].data.role

\* C20: every handler checks the caller's identity, then the caller's
\* entitlement, then the shape of the input, and writes only afterwards: a
\* call without identity ends with unauthenticated before any read, a call by
\* a caller who is not entitled ends with permission-denied, whatever the
\* target and the input are, and a call that ends with permission-denied or
\* invalid-argument has written nothing.
C20_ChecksInOrder ==
    \A p \in Procs :
        /\ (req[p].op # "none" /\ req[p].auth = NoAuth)
              => res[p].code = "unauthenticated" /\ io[p] = NoIo
        /\ (pc[p] = "done" /\ Unauthorized(p)) => res[p].code = "permission-denied"
        /\ (pc[p] = "done" /\ res[p].code \in {"permission-denied", "invalid-argument"})
              => ~io[p].writes

SameField(d, e, f) ==
    /\ (f \in DOMAIN d) = (f \in DOMAIN e)
    /\ (f \in DOMAIN d) => d[f] = e[f]

\* C21: no step of updateAuthUserProfile, whoever calls and whatever the
\* patch, changes the uid, the createdAt or the lastLoginAt of a profile.
C21_ImmutableFields ==
    [][\A p \in Procs :
          (req[p].op = "updateAuthUserProfile" /\ pc'[p] # pc[p])
              => \A k \in DOMAIN profiles :
                    /\ k \in DOMAIN profiles'
                    /\ \A f \in {"uid", "createdAt", "lastLoginAt"} :
                          SameField(profiles[k], profiles'[k], f)]_vars

\* The call in slot p is the transfer that failed at its second write.
FailedRun(p) == IsTransfer(p) /\ IsRetry(req[p]) /\ base[p] = prev.before

\* The call in slot p runs that transfer again, from the state it left.
RetryRun(p) == IsTransfer(p) /\ IsRetry(req[p]) /\ base[p] # prev.before

\* C22: when the salon write of updateSalon fails after the write of the
\* owner's profile, the call ends with an error and the profile written
\* stays; the same call made again from there succeeds and ends in the state
\* one successful call would have reached: the profile as the first call wrote
\* it, the salon with the new ownerId and the other fields of the request.
C22_RetryCompletesTransfer ==
    \A p \in Procs :
        /\ (pc[p] = "done" /\ FailedRun(p))
              => /\ res[p].code = "internal"
                 /\ salons = prev.before.salons
                 /\ \E t \in 1..now :
                       profiles = DocSetMerge(prev.before.profiles, OwnerKey(p),
                                      StubProfile(req[p].data.ownerEmail, PromotedRole, t))
        /\ (pc[p] = "done" /\ RetryRun(p) /\ res[p].code = "ok")
              => /\ profiles = base[p].profiles
                 /\ \E t \in 1..now :
                       profiles = DocSetMerge(prev.before.profiles, OwnerKey(p),
                                      StubProfile(req[p].data.ownerEmail, PromotedRole, t))
                 /\ salons = DocUpdate(prev.before.salons, req[p].data.id,
                                 UpdateData(req[p].data, prev.ownerId, now))

\* A transfer has failed at the salon write, has been called again with the
\* same arguments and has succeeded.
C22_Witness ==
    \E p \in Procs : pc[p] = "done" /\ RetryRun(p) /\ res[p].code = "ok"

\* The call in slot p has changed no profile and no user record of the
\* identity provider.
NothingUpdated(p) ==
    /\ profiles = base[p].profiles
    /\ authUsers = base[p].authUsers
    /\ ~io[p].writes

HasPhotoURL(p, v) ==
    "photoURL" \in DOMAIN req[p].data.updates /\ req[p].data.updates.photoURL = v

\* C23: updateAuthUserProfile for a target without profile document ends with
\* not-found; for an existing target, by a caller entitled to the update, with
\* a photoURL that is neither a string nor null it ends with invalid-argument,
\* while a null photoURL is accepted; a call that ends in one of the two errors
\* has created and changed no profile and has not called the identity provider.
C23_RejectedUpdates ==
    \A p \in Procs :
        (pc[p] = "done" /\ IsUpdate(p))
            => /\ ~DocExists(base[p].profiles, UpdateKey(p))
                     => res[p] = Err("not-found") /\ NothingUpdated(p)
               /\ (DocExists(base[p].profiles, UpdateKey(p)) /\ ~Unauthorized(p)
                   /\ HasPhotoURL(p, NotAString))
                     => res[p] = Err("invalid-argument") /\ NothingUpdated(p)
               /\ HasPhotoURL(p, Null) => res[p].code # "invalid-argument"

\* A caller has sent a photoURL that is no string to their own profile and
\* has been turned away.
C23_Witness ==
    \E p \in Procs :
        /\ pc[p] = "done" /\ IsUpdate(p)
        /\ DocExists(base[p].profiles, UpdateKey(p))
        /\ HasPhotoURL(p, NotAString)
        /\ res[p] = Err("invalid-argument")

\* C24: every step of updateAuthUserProfile or updateSalon that creates or
\* changes a profile leaves its updatedAt at the time of that write, and no
\* step of ensureUserProfile sets an updatedAt: a profile it creates has none,
\* a profile it touches keeps what it had.
C24_UpdatedAtOnEveryWrite ==
    [][\A p \in Procs : \A k \in DOMAIN profiles' :
          (pc'[p] # pc[p]
           /\ (k \notin DOMAIN profiles \/ profiles'[k] # profiles[k]))
              => /\ req[p].op \in {"updateAuthUserProfile", "updateSalon"}
                    => /\ "updatedAt" \in DOMAIN profiles'[k]
                       /\ profiles'[k].updatedAt = now'
                 /\ req[p].op = "ensureUserProfile"
                    => IF k \in DOMAIN profiles
                       THEN SameField(profiles[k], profiles'[k], "updatedAt")
                       ELSE "updatedAt" \notin DOMAIN profiles'[k]]_vars

\* C25: every write of updateAuthUserProfile that carries role admin commits
\* while the caller's profile has role admin, calls that overlap included: a
\* caller demoted between the handler's read and its write does not get the
\* role back through that write.
C25_AdminAtCommit ==
    [][\A p \in Procs :
          (/\ req[p].op = "updateAuthUserProfile"
           /\ pc[p] = "upd_write"
           /\ profiles' # profiles
           /\ Field(FinalUpdates(req[p]), "role") = "admin")
              => IsAdminDoc(profiles, CallerKey(p))]_vars

\* The awaits of the handlers behind assertAdmin.
BehindGuard ==
    {"list_scan", "search_scan", "add_write", "del_write",
     "us_lookup", "us_getprofile", "us_profwrite", "us_salonwrite"}

\* C26: from a store in which no profile has role admin, no calls of the eight
\* handlers, one after the other or overlapping, lead to a profile with role
\* admin, get a handler past assertAdmin, or create, change or delete a salon.
C26_NoBootstrap ==
    /\ \A k \in DOMAIN profiles : Field(profiles[k], "role") # "admin"
    /\ salons = [k \in {"s1"} |-> SeedSalon]
    /\ \A p \in Procs : pc[p] \notin BehindGuard

\* A caller with a profile has asked for role admin on it and has been turned
\* away, and a call for a salon has been turned away at the guard.
C26_Witness ==
    \E p, q \in Procs :
        /\ pc[p] = "done" /\ IsUpdate(p)
        /\ req[p].data.role = "admin"
        /\ DocExists(profiles, UpdateKey(p))
        /\ res[p].code = "permission-denied"
        /\ pc[q] = "done" /\ req[q].op = "addSalon" /\ req[q].auth # NoAuth
        /\ res[q].code = "permission-denied"

\* C27: every successful ensureUserProfile call returns a record whose uid is
\* the caller's and whose role is admin or customer, also when the caller's
\* profile document was first written as a stub by updateSalon.
C27_EnsureReturnsCaller ==
    \A p \in Procs :
        (pc[p] = "done" /\ IsEnsure(p) /\ res[p].code = "ok")
            => /\ res[p].value.uid = req[p].auth
               /\ res[p].value.role \in UserRoles

\* C28: the ownerId a handler stores on a salon is the account id that the
\* identity provider has for the request's ownerEmail, in addSalon as in
\* updateSalon, and both handlers end with not-found and write nothing when
\* there is no such account.
C28_OwnerIdResolved ==
    [][\A p \in Procs :
          (req[p].op \in {"addSalon", "updateSalon"} /\ pc'[p] # pc[p])
              => /\ \A s \in DOMAIN salons' :
                       (s \notin DOMAIN salons \/ salons'[s] # salons[s])
                           => (~Falsy(req[p].data.ownerEmail)
                                  => Field(salons'[s], "ownerId")
                                        = GetUserByEmail(req[p].data.ownerEmail))
                 /\ (pc'[p] = "done" /\ WasAdmin(p)
                     /\ ~Falsy(req[p].data.ownerEmail)
                     /\ GetUserByEmail(req[p].data.ownerEmail) = Undefined)
                       => res'[p] = Err("not-found") /\ ~io'[p].writes]_vars

\* C29: no step removes a profile document, and a step that adds one is the
\* create of ensureUserProfile, for the caller, or the stub creation of
\* updateSalon, for the account of the owner's email; the steps of the other
\* six handlers leave the set of profile documents as it is.
C29_ProfilesOnlyGrow ==
    [][/\ DOMAIN profiles \subseteq DOMAIN profiles'
       /\ \A k \in (DOMAIN profiles') \ (DOMAIN profiles) :
             \E p \in Procs :
                /\ pc'[p] # pc[p]
                /\ \/ req[p].op = "ensureUserProfile" /\ k[2] = req[p].auth
                   \/ /\ req[p].op = "updateSalon"
                      /\ k[2] = GetUserByEmail(req[p].data.ownerEmail)]_vars

\* A salon has been deleted while profiles exist, one of them a stub that an
\* ownership transfer created.
C29_Witness ==
    \E p \in Procs :
        /\ pc[p] = "done" /\ req[p].op = "deleteSalon" /\ res[p].code = "ok"
        /\ \E k \in DOMAIN profiles : "uid" \notin DOMAIN profiles[k]

====
